---- MODULE Spec2Model ----
(***************************************************************************)
(* Model of the devil_bot_rust Lambda webhook (src/resources/src/main.rs). *)
(* Every invocation handles one request: handler parses the body, runs     *)
(* intercept_challenge_request and intercept_command and answers with the  *)
(* challenge.  The steps of one request are split at the await points of   *)
(* the async code, so that independent invocations interleave there.       *)
(***************************************************************************)
EXTENDS Integers, Sequences, FiniteSets, TLC

\* ---------------------------------------------------------------- bounds
\* Number of concurrent invocations in the concurrent specification.
NumInvocations == 2
\* Largest "buns" value a record of the table may hold initially.
MaxInitBuns == 1

\* ------------------------------------------------------- program literals
BUNS_TABLE_NAME == "BUNS_TABLE_NAME"
ALLOWED_CHANNEL == "C0351GJ62Q0"
INVALID_CHALLENGE == "invalid_challenge"
EXIT_FAILURE == 1

\* ------------------------------------------------- serde_json::Value model
\* A Value is a tagged record; v is only ever compared between equal tags.
Null == [t |-> "null", v |-> 0]
Num(n) == [t |-> "num", v |-> n]
Str(s) == [t |-> "str", v |-> s]
Absent == [t |-> "absent", v |-> 0]
\* An object built from a function of optional members: absent ones are not
\* members of the object.
Obj(f) == [t |-> "obj", v |-> [k \in {x \in DOMAIN f : f[x].t # "absent"} |-> f[k]]]

\* serde_json's Index: a missing member, or indexing a non-object, is Null.
Idx(val, key) ==
    IF val.t = "obj"
    THEN IF key \in DOMAIN val.v THEN val.v[key] ELSE Null
    ELSE Null

\* Value::as_str().unwrap_or(default)
AsStrOr(val, default) == IF val.t = "str" THEN val.v ELSE default

\* PartialEq<&str> for Value
ValueEqStr(val, s) == val.t = "str" /\ val.v = s

\* Equality of two JSON values (tag first, so that payloads of different
\* types are never compared).
JsonEq(a, b) == a.t = b.t /\ a.v = b.v

\* ------------------------------------------------------------ text model
\* event.text is a sequence of characters, so that to_lowercase and
\* contains are computed and not assumed.
UpperChars == <<"A","B","C","D","E","F","G","H","I","J","K","L","M",
                "N","O","P","Q","R","S","T","U","V","W","X","Y","Z">>
LowerChars == <<"a","b","c","d","e","f","g","h","i","j","k","l","m",
                "n","o","p","q","r","s","t","u","v","w","x","y","z">>

char_to_lowercase(c) ==
    IF \E k \in DOMAIN UpperChars : UpperChars[k] = c
    THEN LowerChars[CHOOSE k \in DOMAIN UpperChars : UpperChars[k] = c]
    ELSE c

to_lowercase(s) == [k \in DOMAIN s |-> char_to_lowercase(s[k])]

contains(s, pat) ==
    \E k \in 0..(Len(s) - Len(pat)) : SubSeq(s, k + 1, k + Len(pat)) = pat

PING == <<"p","i","n","g">>
BUNS == <<"b","u","n","s">>
INVALID_TEXT == <<"i","n","v","a","l","i","d","_","t","e","x","t">>

\* ------------------------------------------------------------ the inputs
\* Request bodies the platform may send.  Every member of the payload is
\* optional and may have any JSON type (spec section 3).
EmptyObject == [t |-> "obj", v |-> <<>>]

ChallengeValues ==
    {Absent, Null, Num(7), EmptyObject,
     Str("3eZbrw1aBm2rZgRNFdxV2595E9CY3gmdALWMmHkvFXO7tYXAYM8P"),
     Str(INVALID_CHALLENGE)}

EventTypeValues == {Absent, Str("team_join"), Str("message")}

UserValues ==
    {Absent,
     Obj([id |-> Str("U061F7AUR"), profile |-> Obj([first_name |-> Str("Ann")])]),
     Obj([id |-> Num(5), profile |-> Obj([first_name |-> Null])])}

ChannelValues == {Absent, Str(ALLOWED_CHANNEL), Str("C0351GJ62Q"), Num(3)}

SubtypeValues == {Absent, Str("bot_message"), Str("channel_join")}

TextStrings ==
    {<<"p","i","n","g">>, <<"P","I","N","G">>, <<"P","i","n","G">>,
     <<"p","i","n","g"," ">>,
     <<"B","U","N","S">>, <<"b","u","n">>,
     <<"h","o","t"," ","B","u","n","s","!">>,
     <<"P","I","N","G"," ","b","u","n","s">>,
     <<"p","i","n","g"," ","b","u","n","s">>,
     <<"P","i","N","g"," ","B","u","N","s">>,
     <<"b","u","n","s","p","i","n","g">>,
     <<"h","e","l","l","o">>}

TextValues == {Absent} \cup {Str(s) : s \in TextStrings}

TOKEN == Str("Jhj5dZrVaK7ZwHHjRyZWjbDl")

Event(ty, us, ch, tx, st) ==
    Obj([type |-> ty, user |-> us, channel |-> ch, text |-> tx, subtype |-> st])

Body(chal, ev, eid) ==
    Obj([token |-> TOKEN, challenge |-> chal, type |-> Str("event_callback"),
         event |-> ev, enterprise_id |-> eid])

EventValues ==
    {Absent, Str("event")} \cup
    {Event(ty, us, ch, tx, st) :
        ty \in EventTypeValues, us \in UserValues, ch \in ChannelValues,
        tx \in TextValues, st \in SubtypeValues}

\* Valid JSON documents: objects with any mix of members, and documents
\* that are not objects at all.
JsonBodies ==
    {Null, Num(42)} \cup
    {Body(chal, ev, eid) :
        chal \in ChallengeValues, ev \in EventValues, eid \in {Absent, Str("E1")}}

\* A raw request body is a JSON document, given by the value it denotes,
\* or a byte string that is not JSON.
JsonRaw(val) == [kind |-> "json", value |-> val]
MalformedRaw == {[kind |-> k, value |-> Null] : k \in {"empty", "truncated"}}

RawBodies == MalformedRaw \cup {JsonRaw(b) : b \in JsonBodies}

\* The bodies of the concurrent specification: a few requests of each kind,
\* for two users.
BunsText == Str(<<"h","o","t"," ","B","u","n","s","!">>)
PingText == Str(<<"P","I","N","G">>)

ConcJsonBodies ==
    {Body(Absent, Event(Str("message"), Absent, Str(ALLOWED_CHANNEL), BunsText, Absent), eid) :
        eid \in {Str("E1"), Str("E2")}}
    \cup
    {Body(Str("c1"), Event(Str("team_join"), Absent, Str(ALLOWED_CHANNEL), PingText, Absent), Str("E1"))}

ConcRawBodies == {[kind |-> "truncated", value |-> Null]} \cup {JsonRaw(b) : b \in ConcJsonBodies}

\* The process environment: BUNS_TABLE_NAME is set or missing.
Envs == {<<>>, [k \in {BUNS_TABLE_NAME} |-> "buns-table"]}

\* The counter table: a record per user id that has one.
TableKeys == {"E1", "E2"}
Tables(keys) ==
    UNION {[ks -> [buns : 1..MaxInitBuns]] : ks \in SUBSET keys}

\* -------------------------------------------------------------- the state
VARIABLES
    env,        \* the environment variables of the Lambda
    table,      \* the DynamoDB table: user_id -> [buns |-> n]
    table0,     \* the table before any request ran (history)
    inv         \* the invocations, one request each

vars == <<env, table, table0, inv>>

Invocations == DOMAIN inv

NoResponse == [status |-> "none", challenge |-> ""]
OkResponse(challenge) == [status |-> "ok", challenge |-> challenge]
ErrResponse == [status |-> "error", challenge |-> ""]

NewInvocation(raw) ==
    [pc |-> "parse",
     raw |-> raw,               \* request body as received
     body |-> Null,             \* parsed body
     challenge |-> "",          \* local of handler
     onboard |-> <<>>,          \* calls of commands::onboard_user::run
     reply |-> <<>>,            \* calls of commands::ping::run
     buns |-> <<>>,             \* calls of commands::buns::run
     user_arg |-> "",           \* argument of increment_buns
     table_name |-> "",         \* local of increment_buns
     store_calls |-> <<>>,      \* calls of aws::dynamo::increment_item
     response |-> NoResponse,
     exit_status |-> 0]

\* ------------------------------------------------------ the pure functions
\* serde_json::from_slice: Ok(value) for a JSON document, Err otherwise.
from_slice(raw) ==
    IF raw.kind = "json" THEN [ok |-> TRUE, value |-> raw.value]
    ELSE [ok |-> FALSE, value |-> Null]

\* Variants of the code with one slip each, which the properties must tell
\* from the code: the token is echoed; the default is the empty string.
intercept_challenge_request_token(body) ==
    AsStrOr(Idx(body, "token"), INVALID_CHALLENGE)

intercept_challenge_request_empty(body) ==
    AsStrOr(Idx(body, "challenge"), "")

intercept_challenge_request(body) ==
    AsStrOr(Idx(body, "challenge"), INVALID_CHALLENGE)

event_type(body) == AsStrOr(Idx(Idx(body, "event"), "type"), "invalid event type")
username(body) == AsStrOr(Idx(Idx(Idx(body, "event"), "user"), "id"), "invalid_user_name")
first_name(body) ==
    AsStrOr(Idx(Idx(Idx(Idx(body, "event"), "user"), "profile"), "first_name"), "")
channel(body) == AsStrOr(Idx(Idx(body, "event"), "channel"), "invalid_channel")
text(body) == to_lowercase(AsStrOr(Idx(Idx(body, "event"), "text"), INVALID_TEXT))
enterprise_user_id(body) == AsStrOr(Idx(body, "enterprise_id"), "invalid_channel")
\* Variant: the subtype is read from the top of the body.
is_bot_top_level(body) == ValueEqStr(Idx(body, "subtype"), "bot_message")

is_bot(body) == ValueEqStr(Idx(Idx(body, "event"), "subtype"), "bot_message")

is_team_join(body) == event_type(body) = "team_join"
\* Variant: the comparison with the allowed channel is inverted.
channel_allowed_inverted(body) == channel(body) # ALLOWED_CHANNEL

channel_allowed(body) == channel(body) = ALLOWED_CHANNEL
\* Variant: "ping" is matched as a substring.
is_ping_substring(body) == contains(text(body), PING)

is_ping(body) == text(body) = PING
has_buns(body) == contains(text(body), BUNS)

\* aws::dynamo::increment_item: an atomic add of 1 to the field of the
\* record with the given key, which creates the record at 1.
increment_item(tab, key_value, field) ==
    IF key_value \in DOMAIN tab
    THEN [tab EXCEPT ![key_value][field] = @ + 1]
    ELSE [k \in DOMAIN tab \cup {key_value} |->
            IF k = key_value THEN [f \in {field} |-> 1] ELSE tab[k]]

\* ------------------------------------------------------------- the actions
\* Variant: a body that does not parse is handled as Null.
handler_parse_lenient(i) ==
    /\ inv[i].pc = "parse"
    /\ inv' = [inv EXCEPT ![i].body = from_slice(inv[i].raw).value,
                          ![i].pc = "challenge"]
    /\ UNCHANGED <<env, table, table0>>

\* handler, lines 30-31: parse the body; a parse error is returned with `?`.
handler_parse(i) ==
    /\ inv[i].pc = "parse"
    /\ LET r == from_slice(inv[i].raw) IN
        IF r.ok
        THEN inv' = [inv EXCEPT ![i].body = r.value, ![i].pc = "challenge"]
        ELSE inv' = [inv EXCEPT ![i].response = ErrResponse, ![i].pc = "done"]
    /\ UNCHANGED <<env, table, table0>>

\* handler, line 33.
handler_challenge(i) ==
    /\ inv[i].pc = "challenge"
    /\ inv' = [inv EXCEPT ![i].challenge = intercept_challenge_request(inv[i].body),
                          ![i].pc = "onboard"]
    /\ UNCHANGED <<env, table, table0>>

\* Variant: the team_join branch runs after the bot guard.
intercept_command_onboard_guarded(i) ==
    /\ inv[i].pc = "onboard"
    /\ LET b == inv[i].body IN
        IF is_team_join(b) /\ ~is_bot(b)
        THEN \E ok \in BOOLEAN :
                inv' = [inv EXCEPT
                    ![i].onboard = Append(@, [user |-> username(b),
                                              first_name |-> first_name(b),
                                              ok |-> ok]),
                    ![i].pc = "guards"]
        ELSE inv' = [inv EXCEPT ![i].pc = "guards"]
    /\ UNCHANGED <<env, table, table0>>

\* intercept_command, lines 64-76: the team_join branch.  The outcome of
\* the onboarding call is not visible to the caller (run returns unit).
intercept_command_onboard(i) ==
    /\ inv[i].pc = "onboard"
    /\ LET b == inv[i].body IN
        IF is_team_join(b)
        THEN \E ok \in BOOLEAN :
                inv' = [inv EXCEPT
                    ![i].onboard = Append(@, [user |-> username(b),
                                              first_name |-> first_name(b),
                                              ok |-> ok]),
                    ![i].pc = "guards"]
        ELSE inv' = [inv EXCEPT ![i].pc = "guards"]
    /\ UNCHANGED <<env, table, table0>>

\* intercept_command, lines 77-105: the channel and bot guards.
intercept_command_guards(i) ==
    /\ inv[i].pc = "guards"
    /\ LET b == inv[i].body IN
        IF ~channel_allowed(b)
        THEN inv' = [inv EXCEPT ![i].pc = "respond"]
        ELSE IF is_bot(b)
             THEN inv' = [inv EXCEPT ![i].pc = "respond"]
             ELSE inv' = [inv EXCEPT ![i].pc = "ping"]
    /\ UNCHANGED <<env, table, table0>>

\* intercept_command, lines 106-110: the exact match on the text.
intercept_command_ping(i) ==
    /\ inv[i].pc = "ping"
    /\ LET b == inv[i].body IN
        IF is_ping(b)
        THEN \E ok \in BOOLEAN :
                inv' = [inv EXCEPT
                    ![i].reply = Append(@, [channel |-> channel(b), ok |-> ok]),
                    ![i].pc = "buns"]
        ELSE inv' = [inv EXCEPT ![i].pc = "buns"]
    /\ UNCHANGED <<env, table, table0>>

\* intercept_command, lines 111-113: the substring match on the text.
intercept_command_buns(i) ==
    /\ inv[i].pc = "buns"
    /\ LET b == inv[i].body IN
        IF has_buns(b)
        THEN inv' = [inv EXCEPT
                ![i].buns = Append(@, [channel |-> channel(b),
                                       user |-> enterprise_user_id(b)]),
                ![i].pc = "buns_run"]
        ELSE inv' = [inv EXCEPT ![i].pc = "respond"]
    /\ UNCHANGED <<env, table, table0>>

\* commands::buns::run: the increment-counter action calls increment_buns
\* for the user it was given.
commands_buns_run(i) ==
    /\ inv[i].pc = "buns_run"
    /\ inv' = [inv EXCEPT ![i].user_arg = inv[i].buns[Len(inv[i].buns)].user,
                          ![i].pc = "getenv"]
    /\ UNCHANGED <<env, table, table0>>

\* Variant: a missing variable reads as the empty string.
get_env_var_default(i) ==
    /\ inv[i].pc = "getenv"
    /\ inv' = [inv EXCEPT
            ![i].table_name = IF BUNS_TABLE_NAME \in DOMAIN env
                              THEN env[BUNS_TABLE_NAME] ELSE "",
            ![i].pc = "increment"]
    /\ UNCHANGED <<env, table, table0>>

\* increment_buns, line 130, with get_env_var, lines 119-127: a missing
\* variable ends the process with status 1.
get_env_var(i) ==
    /\ inv[i].pc = "getenv"
    /\ IF BUNS_TABLE_NAME \in DOMAIN env
       THEN inv' = [inv EXCEPT ![i].table_name = env[BUNS_TABLE_NAME],
                               ![i].pc = "increment"]
       ELSE inv' = [inv EXCEPT ![i].exit_status = EXIT_FAILURE,
                               ![i].pc = "exited"]
    /\ UNCHANGED <<env, table, table0>>

\* Variant: the error of increment_item is returned to the caller of handler.
increment_buns_propagate(i) ==
    /\ inv[i].pc = "increment"
    /\ \E ok \in BOOLEAN :
        /\ table' = IF ok THEN increment_item(table, inv[i].user_arg, "buns")
                          ELSE table
        /\ inv' = [inv EXCEPT
                ![i].store_calls = Append(@, [table |-> inv[i].table_name,
                                              key_name |-> "user_id",
                                              key_value |-> inv[i].user_arg,
                                              field |-> "buns",
                                              ok |-> ok]),
                ![i].response = IF ok THEN @ ELSE ErrResponse,
                ![i].pc = IF ok THEN "respond" ELSE "done"]
    /\ UNCHANGED <<env, table0>>

\* Variant: the new value is computed by the client from the record as it
\* was when the request arrived, and written back.
increment_buns_read_modify_write(i) ==
    /\ inv[i].pc = "increment"
    /\ \E ok \in BOOLEAN :
        /\ table' =
            IF ok
            THEN [k \in DOMAIN table \cup {inv[i].user_arg} |->
                    IF k = inv[i].user_arg
                    THEN increment_item(table0, k, "buns")[k]
                    ELSE table[k]]
            ELSE table
        /\ inv' = [inv EXCEPT
                ![i].store_calls = Append(@, [table |-> inv[i].table_name,
                                              key_name |-> "user_id",
                                              key_value |-> inv[i].user_arg,
                                              field |-> "buns",
                                              ok |-> ok]),
                ![i].pc = "respond"]
    /\ UNCHANGED <<env, table0>>

\* increment_buns, lines 131-133: one call of increment_item, whose error
\* is logged and dropped.
increment_buns(i) ==
    /\ inv[i].pc = "increment"
    /\ \E ok \in BOOLEAN :
        /\ table' = IF ok THEN increment_item(table, inv[i].user_arg, "buns")
                          ELSE table
        /\ inv' = [inv EXCEPT
                ![i].store_calls = Append(@, [table |-> inv[i].table_name,
                                              key_name |-> "user_id",
                                              key_value |-> inv[i].user_arg,
                                              field |-> "buns",
                                              ok |-> ok]),
                ![i].pc = "respond"]
    /\ UNCHANGED <<env, table0>>

\* handler, line 36.
handler_respond(i) ==
    /\ inv[i].pc = "respond"
    /\ inv' = [inv EXCEPT ![i].response = OkResponse(inv[i].challenge),
                          ![i].pc = "done"]
    /\ UNCHANGED <<env, table, table0>>

\* --------------------------------------------------------- specifications
\* One invocation, any request body.
Init ==
    /\ env \in Envs
    /\ table \in Tables({"E1"})
    /\ table0 = table
    /\ inv \in [{1} -> {NewInvocation(raw) : raw \in RawBodies}]

\* Concurrent invocations on the same table.
ConcInit ==
    /\ env \in Envs
    /\ table \in Tables(TableKeys)
    /\ table0 = table
    /\ inv \in [1..NumInvocations -> {NewInvocation(raw) : raw \in ConcRawBodies}]

Next ==
    \E i \in Invocations :
        \/ handler_parse(i)
        \/ handler_challenge(i)
        \/ intercept_command_onboard(i)
        \/ intercept_command_guards(i)
        \/ intercept_command_ping(i)
        \/ intercept_command_buns(i)
        \/ commands_buns_run(i)
        \/ get_env_var(i)
        \/ increment_buns(i)
        \/ handler_respond(i)

Spec == Init /\ [][Next]_vars

ConcSpec == ConcInit /\ [][Next]_vars

TypeOK ==
    \A i \in Invocations :
        inv[i].pc \in {"parse", "challenge", "onboard", "guards", "ping", "buns",
                       "buns_run", "getenv", "increment", "respond", "done", "exited"}

\* ------------------------------------------------------------- properties
\* What the request of invocation i says, read from the document itself.
Doc(i) == inv[i].raw.value
Valid(i) == inv[i].raw.kind = "json"
Finished(i) == inv[i].pc \in {"done", "exited"}
Responded(i) == inv[i].pc = "done" /\ inv[i].response.status = "ok"
HasChallenge(i) == Doc(i).t = "obj" /\ "challenge" \in DOMAIN Doc(i).v
ChallengeOf(i) == Idx(Doc(i), "challenge")
EventOf(i) == Idx(Doc(i), "event")
IsStr(val, s) == val.t = "str" /\ val.v = s
StrOr(val, d) == IF val.t = "str" THEN val.v ELSE d
OnAllowedChannel(i) == IsStr(Idx(EventOf(i), "channel"), ALLOWED_CHANNEL)
FromBot(i) == IsStr(Idx(EventOf(i), "subtype"), "bot_message")
TeamJoin(i) == IsStr(Idx(EventOf(i), "type"), "team_join")
LowerText(i) == to_lowercase(StrOr(Idx(EventOf(i), "text"), INVALID_TEXT))
PING_BUNS == <<"p","i","n","g"," ","b","u","n","s">>
NoReplyNoCounter(i) ==
    inv[i].reply = <<>> /\ inv[i].buns = <<>> /\ inv[i].store_calls = <<>>
ConfigMissing == BUNS_TABLE_NAME \notin DOMAIN env

\* C1 (as stated): whenever handler answers a request whose body has a
\* `challenge` member V, the answer's challenge is V, whatever type V has.
C1_EchoAnyType ==
    \A i \in Invocations :
        (Responded(i) /\ Valid(i) /\ HasChallenge(i))
            => JsonEq(Str(inv[i].response.challenge), ChallengeOf(i))

\* C1 (amended): the answer's challenge is V when V is a JSON string, and
\* the sentinel "invalid_challenge" when V has any other JSON type.
C1_EchoString ==
    \A i \in Invocations :
        (Responded(i) /\ Valid(i) /\ HasChallenge(i))
            => IF ChallengeOf(i).t = "str"
               THEN inv[i].response.challenge = ChallengeOf(i).v
               ELSE inv[i].response.challenge = INVALID_CHALLENGE

C1_Witness ==
    \E i \in Invocations :
        /\ Responded(i) /\ HasChallenge(i)
        /\ ChallengeOf(i).t = "str" /\ ChallengeOf(i).v # INVALID_CHALLENGE
        /\ inv[i].response.challenge = ChallengeOf(i).v
        /\ inv[i].onboard # <<>>

\* C2: whenever handler answers a request whose body is valid JSON without
\* a `challenge` member, the answer's challenge is "invalid_challenge",
\* whether or not an action fired.
C2_SentinelWhenAbsent ==
    \A i \in Invocations :
        (Responded(i) /\ Valid(i) /\ ~HasChallenge(i))
            => inv[i].response.challenge = INVALID_CHALLENGE

C2_Witness ==
    \E i \in Invocations :
        /\ Responded(i) /\ Valid(i) /\ ~HasChallenge(i)
        /\ inv[i].store_calls # <<>>

\* C3: once the team_join branch of a valid request has run, onboarding has
\* fired exactly once, with event.user.id and event.user.profile.first_name
\* (their defaults when they are not strings), if event.type is "team_join",
\* whatever the channel, subtype and text are; otherwise it never fires.
C3_OnboardOnTeamJoin ==
    \A i \in Invocations :
        /\ Len(inv[i].onboard) <= 1
        /\ (Valid(i) /\ inv[i].pc \notin {"parse", "challenge", "onboard"}) =>
            IF TeamJoin(i)
            THEN /\ Len(inv[i].onboard) = 1
                 /\ inv[i].onboard[1].user =
                        StrOr(Idx(Idx(EventOf(i), "user"), "id"), "invalid_user_name")
                 /\ inv[i].onboard[1].first_name =
                        StrOr(Idx(Idx(Idx(EventOf(i), "user"), "profile"), "first_name"), "")
            ELSE inv[i].onboard = <<>>
        /\ ~TeamJoin(i) => inv[i].onboard = <<>>

C3_Witness ==
    \E i \in Invocations :
        /\ Finished(i) /\ TeamJoin(i) /\ FromBot(i) /\ ~OnAllowedChannel(i)
        /\ Len(inv[i].onboard) = 1
        /\ inv[i].onboard[1].user = "U061F7AUR"
        /\ inv[i].onboard[1].first_name = "Ann"

\* C4: a valid request whose event.channel is not the string "C0351GJ62Q0"
\* never fires the reply action nor the counter-increment action.
C4_OtherChannelSilent ==
    \A i \in Invocations :
        (Valid(i) /\ ~OnAllowedChannel(i)) => NoReplyNoCounter(i)

C4_Witness ==
    \E i \in Invocations :
        /\ Responded(i) /\ ~OnAllowedChannel(i) /\ ~FromBot(i)
        /\ IsStr(Idx(EventOf(i), "channel"), "C0351GJ62Q")
        /\ LowerText(i) = PING
        /\ NoReplyNoCounter(i)

\* C5: a valid request on the allowed channel whose event.subtype is
\* "bot_message" never fires the reply action nor the counter-increment
\* action.
C5_BotSilent ==
    \A i \in Invocations :
        (Valid(i) /\ OnAllowedChannel(i) /\ FromBot(i)) => NoReplyNoCounter(i)

C5_Witness ==
    \E i \in Invocations :
        /\ Responded(i) /\ OnAllowedChannel(i) /\ FromBot(i)
        /\ contains(LowerText(i), BUNS)
        /\ NoReplyNoCounter(i)

\* C6 (as stated): a finished valid request on the allowed channel, not from
\* a bot, whose text is "ping buns" in any letter case has fired the reply
\* action once and the counter-increment action once.
C6_PingBunsFiresBoth ==
    \A i \in Invocations :
        (Valid(i) /\ Finished(i) /\ OnAllowedChannel(i) /\ ~FromBot(i)
            /\ LowerText(i) = PING_BUNS)
            => Len(inv[i].reply) = 1 /\ Len(inv[i].buns) = 1

\* C6 (amended): such a request fires the counter-increment action once and
\* the reply action not at all; in general, for a finished request that
\* passed both guards, the reply fires once exactly when the lower-cased
\* text equals "ping" and the counter-increment fires once exactly when the
\* lower-cased text contains "buns", each rule independently of the other.
C6_PingBunsFiresCounterOnly ==
    \A i \in Invocations :
        (Valid(i) /\ Finished(i) /\ OnAllowedChannel(i) /\ ~FromBot(i)) =>
            /\ Len(inv[i].reply) = (IF LowerText(i) = PING THEN 1 ELSE 0)
            /\ Len(inv[i].buns) = (IF contains(LowerText(i), BUNS) THEN 1 ELSE 0)
            /\ \A k \in DOMAIN inv[i].reply : inv[i].reply[k].channel = ALLOWED_CHANNEL
            /\ LowerText(i) = PING_BUNS =>
                    inv[i].reply = <<>> /\ Len(inv[i].buns) = 1

C6_Witness ==
    \E i \in Invocations :
        /\ Valid(i) /\ Finished(i) /\ OnAllowedChannel(i) /\ ~FromBot(i)
        /\ IsStr(Idx(EventOf(i), "text"), <<"P","I","N","G"," ","b","u","n","s">>)
        /\ inv[i].reply = <<>> /\ Len(inv[i].buns) = 1

\* C7: a request whose body is not valid JSON fires no action and makes no
\* store call, is answered by the parse error as soon as it is parsed, and
\* leaves the table alone; no valid request is answered by an error.
C7_MalformedFails ==
    /\ \A i \in Invocations :
        /\ ~Valid(i) =>
            /\ inv[i].onboard = <<>> /\ NoReplyNoCounter(i)
            /\ inv[i].pc \in {"parse", "done"}
            /\ inv[i].pc = "done" => inv[i].response = ErrResponse
            /\ inv[i].exit_status = 0
        /\ inv[i].response.status = "error" => ~Valid(i)
    /\ (\A i \in Invocations : ~Valid(i)) => table = table0

C7_Witness ==
    \E i \in Invocations :
        /\ ~Valid(i) /\ inv[i].pc = "done"
        /\ inv[i].response.status = "error"

\* C8: when a downstream call of a valid request failed, the call is not
\* repeated, the request is not failed, and the answer is the success
\* response with the challenge echo of that request.
DownstreamFailed(i) ==
    \/ \E k \in DOMAIN inv[i].reply : ~inv[i].reply[k].ok
    \/ \E k \in DOMAIN inv[i].store_calls : ~inv[i].store_calls[k].ok
    \/ \E k \in DOMAIN inv[i].onboard : ~inv[i].onboard[k].ok

C8_FailureSwallowed ==
    \A i \in Invocations :
        (Valid(i) /\ DownstreamFailed(i)) =>
            /\ Len(inv[i].reply) <= 1
            /\ Len(inv[i].store_calls) <= 1
            /\ Len(inv[i].onboard) <= 1
            /\ inv[i].response.status # "error"
            /\ inv[i].store_calls # <<>> => inv[i].pc \in {"respond", "done"}
            /\ inv[i].pc = "done" =>
                inv[i].response =
                    OkResponse(StrOr(ChallengeOf(i), INVALID_CHALLENGE))

C8_Witness ==
    \E i \in Invocations :
        /\ Responded(i)
        /\ Len(inv[i].store_calls) = 1 /\ ~inv[i].store_calls[1].ok
        /\ ChallengeOf(i).t = "str"
        /\ inv[i].response.challenge = ChallengeOf(i).v

\* C9: under any interleaving of the invocations, the "buns" field of every
\* record is its initial value (0 for a missing record) plus the number of
\* successful increments for that user id; when all requests were answered
\* and no store call failed, that is the number of counter-increment actions
\* fired for that user id, and users for whom none fired keep their record.
UserIds == TableKeys \cup {"invalid_channel"} \cup DOMAIN table \cup DOMAIN table0

RECURSIVE SumOver(_, _)
SumOver(f, S) ==
    IF S = {} THEN 0
    ELSE LET x == CHOOSE y \in S : TRUE IN f[x] + SumOver(f, S \ {x})

FiredFor(u) ==
    SumOver([i \in Invocations |->
                IF inv[i].buns # <<>>
                    /\ StrOr(Idx(Doc(i), "enterprise_id"), "invalid_channel") = u
                THEN Len(inv[i].buns) ELSE 0],
            Invocations)

IncrementedFor(u) ==
    SumOver([i \in Invocations |->
                Cardinality({k \in DOMAIN inv[i].store_calls :
                    inv[i].store_calls[k].ok /\ inv[i].store_calls[k].key_value = u})],
            Invocations)

InitialBuns(u) == IF u \in DOMAIN table0 THEN table0[u].buns ELSE 0
CurrentBuns(u) == IF u \in DOMAIN table THEN table[u].buns ELSE 0

AllAnswered == \A i \in Invocations : inv[i].pc = "done"
AllStoreCallsOk ==
    \A i \in Invocations : \A k \in DOMAIN inv[i].store_calls : inv[i].store_calls[k].ok

C9_NoLostIncrement ==
    \A u \in UserIds :
        /\ CurrentBuns(u) = InitialBuns(u) + IncrementedFor(u)
        /\ (AllAnswered /\ AllStoreCallsOk) =>
            /\ CurrentBuns(u) = InitialBuns(u) + FiredFor(u)
            /\ FiredFor(u) = 0 =>
                (u \in DOMAIN table <=> u \in DOMAIN table0)

C9_Witness ==
    /\ AllAnswered /\ AllStoreCallsOk
    /\ \E u \in UserIds :
        /\ u \notin DOMAIN table0
        /\ FiredFor(u) >= 2
        /\ table[u].buns = FiredFor(u)
    /\ \E i, j \in Invocations :
        /\ i # j
        /\ inv[i].store_calls # <<>> /\ inv[j].store_calls # <<>>

\* C10: with BUNS_TABLE_NAME missing, a request that fires the
\* counter-increment action ends the process with status 1, with no store
\* call and no response, after the onboarding action of the request fired;
\* a request that does not fire it never exits and is answered as usual.
C10_MissingConfigExits ==
    \A i \in Invocations :
        /\ inv[i].pc = "exited" =>
            /\ ConfigMissing
            /\ inv[i].exit_status = EXIT_FAILURE /\ inv[i].exit_status # 0
            /\ inv[i].store_calls = <<>>
            /\ inv[i].response = NoResponse
            /\ Len(inv[i].buns) = 1
            /\ Len(inv[i].onboard) = (IF TeamJoin(i) THEN 1 ELSE 0)
            /\ Len(inv[i].reply) = (IF LowerText(i) = PING THEN 1 ELSE 0)
        /\ (ConfigMissing /\ inv[i].buns # <<>>) =>
            /\ inv[i].pc \in {"buns_run", "getenv", "exited"}
            /\ inv[i].store_calls = <<>>
            /\ inv[i].response = NoResponse
        /\ (ConfigMissing /\ inv[i].buns = <<>>) =>
            /\ inv[i].pc # "exited"
            /\ inv[i].exit_status = 0
            /\ inv[i].pc = "done" => inv[i].response.status # "none"
        /\ ~ConfigMissing => inv[i].pc # "exited" /\ inv[i].exit_status = 0

C10_Witness ==
    \E i \in Invocations :
        /\ inv[i].pc = "exited" /\ ConfigMissing
        /\ inv[i].exit_status = 1
        /\ Len(inv[i].onboard) = 1
        /\ inv[i].store_calls = <<>>

====
